---- MODULE Spec2Model ----
(***************************************************************************)
(* The task lifecycle engine of async++ 1.1 (include/async++/task_base.h): *)
(* the state cell, the result/exception/scheduler union, the continuation  *)
(* list protocol, the execution functions of root and continuation tasks,  *)
(* task unwrapping, and the blocking wait; next to it the producers of an  *)
(* event task, the partitioner driver (include/async++/parallel_for.h)     *)
(* and the wait event (src/task_wait_event.h), each with variables and a   *)
(* specification of its own.                                               *)
(*                                                                         *)
(* Every task node owns three control positions, because three different   *)
(* call frames can act on one node:                                        *)
(*   rpc[t]  the frame of then()/add_continuation registering t            *)
(*   pc[t]   the frame of vtable->run(t), the execution function of t      *)
(*   fpc[t]  the frame of cancel()/cancel_base()/finish() acting on t,     *)
(*           which includes run_continuations() of t                       *)
(* A synchronous call is a caller position that waits for the callee's     *)
(* frame to reach "done".                                                  *)
(***************************************************************************)
EXTENDS Integers, Sequences, FiniteSets, TLC

\* ---------------------------------------------------------------- bounds
MaxTasks == 2
MaxUnwrap == 1
MaxReads == 2
MaxSetters == 3
MaxAttempts == 2
MaxRange == 3
MaxWorkers == 2
MaxThrows == 1
MaxSignalers == 2
MaxSignals == 2
MaxLength == 5

UserIds == 1..MaxTasks
\* The producers that hold a handle of the event task.
Setters == 1..MaxSetters
\* What a producer passes: a value to set(), an exception to set_exception().
SetKinds == {"value", "except"}
\* The elements of the largest range [0, MaxRange), the worker threads, the
\* task queues (one per worker, and a shared one), and the invocations of
\* internal_parallel_for: a range of n elements is split at most n - 1
\* times and every split makes two invocations.
Elements == 0..(MaxRange - 1)
Workers == 1..MaxWorkers
Queues == 0..MaxWorkers
FrameIds == 1..(2 * MaxRange)
\* enum wait_type; a mask is modelled as the set of its bits.
task_finished == 1
task_available == 2
WaitTypes == {task_finished, task_available}
\* The threads that call signal(), and the owner id of the waiting thread.
Signalers == 1..MaxSignalers
WaiterId == MaxSignalers + 1
\* The task a callable of user task p returns (unwrapping) and the node of
\* the forwarding continuation that unwrapped_finish registers on it.
ChildNode(p) == MaxTasks + p
FwdNode(p) == 2 * MaxTasks + p
Nodes == 1..(3 * MaxTasks)

\* Payloads. The callable of task t returns the value ValueOf(t) or throws
\* the exception UserExc(t): every callable has its own, so that a payload
\* found in a slot names the callable it came from. The other exceptions
\* are those of a throwing schedule(), a throwing then() and a throwing
\* copy of the result.
ValueOf(t) == t
UserExc(t) == [ex |-> "user", val |-> t]
SchedExc == [ex |-> "sched_error", val |-> 0]
ThenExc == [ex |-> "then_error", val |-> 0]
CopyExc == [ex |-> "copy_error", val |-> 0]
Garbage == [ex |-> "garbage", val |-> 0]

\* S1 is a scheduler whose schedule() may throw; the inline scheduler runs
\* the task in the caller and never throws. User continuations are
\* registered with S1, the forwarding continuation of an unwrap with the
\* inline scheduler.
Scheds == {"S1", "inline"}
\* The parameter style of a continuation: "value" stands for the two
\* specializations that test the parent's state first (ValueCont =
\* std::true_type, called with the parent's result, and ValueCont =
\* fake_void, called with nothing: their bodies differ in that argument
\* only), "task" for the one that is called with the parent task.
Styles == {"value", "task"}

\* ------------------------------------------------------------ task_state
is_finished(s) == s = "completed" \/ s = "canceled"

\* The union { result, except, sched } of task_result_holder.
SlotNone == [tag |-> "none", val |-> 0, ex |-> ""]
SlotSched(s) == [tag |-> "sched", val |-> 0, ex |-> s]
\* Faulty variants: the payload is not written.
set_result_skipped(v) == SlotNone
set_exception_skipped(e) == SlotNone
set_result(v) == [tag |-> "result", val |-> v, ex |-> ""]
set_exception(e) == [tag |-> "except", val |-> e.val, ex |-> e.ex]

NoNode == [kind |-> "none", parent |-> 0, style |-> "none", unwrap |-> FALSE, sched |-> "none"]

VARIABLES
  node,          \* node[t]: shape of the task object
  state,         \* task_base::state
  slot,          \* the storage union
  conts,         \* task_base::continuations, the registered entries
  sealed,        \* the continuation list has been locked by flush_and_lock
  flushList,     \* entries flush_and_lock still has to pass to its callback
  pc, fpc, rpc,  \* control positions (see above)
  funcDestroyed, \* number of destroy_func() calls on t
  handed,        \* number of run_continuation() calls for t
  invoked,       \* number of invocations of the user callable of t
  termCalls,     \* number of finish()/cancel_base() calls on t
  outcome,       \* what the user callable of t did
  nextId,        \* next free user task id
  wpc, wtask, wseen, wgot, \* one thread in wait_and_throw()
  wreads,        \* number of further reads through its shared handle
  estate, eslot, \* an event task: its state and its storage union
  spc, skind,    \* each producer's position in set()/set_exception()
  sok, sfail,    \* each producer's returned attempts: succeeded, failed
  ppc,           \* the call of parallel_for: idle, running, returned, threw
  pfN, pnw,      \* the size of its range; the number of worker threads
  frame,         \* the invocations of internal_parallel_for
  pstack,        \* each worker's call stack of invocations
  pqueue,        \* each worker's local task queue (0: a shared queue)
  visits,        \* number of invocations of the callable on each element
  nextFrame,     \* next free invocation id
  pthrows,       \* number of invocations of the callable that threw
  event_mask,    \* task_wait_event::event_mask, as the set of its bits
  mtx,           \* the owner of the event's mutex, 0 when it is free
  wvpc,          \* the waiting thread's position in task_wait_event::wait()
  wres,          \* what its last wait() returned
  wslept,        \* it has blocked in cond().wait during the current call
  gpc, gbits,    \* each signaling thread's position in signal(), its argument
  gcount,        \* number of signal() calls it has returned from
  unconsumed,    \* the bits signalled that no wait() has returned yet
  twev, twret,   \* the last try_wait(): its argument, what it returned
  twflip,        \* flips at every call of try_wait()
  apc,           \* aligned_array(length): idle, build, rollback, free, ...
  alen, afail,   \* its length; the index whose constructor throws, or -1
  ai, aj,        \* the loop variables i and j of the constructor
  built,         \* number of completed constructor calls on each element
  dtors,         \* number of destructor calls on each element
  afreed,        \* number of aligned_free calls on the block
  submitted      \* the scheduler run_continuation passed t to, or "none"

eventVars == <<estate, eslot, spc, skind, sok, sfail>>
partVars == <<ppc, pfN, pnw, frame, pstack, pqueue, visits, nextFrame, pthrows>>
wevVars == <<event_mask, mtx, wvpc, wres, wslept, gpc, gbits, gcount, unconsumed>>
tryVars == <<twev, twret, twflip>>
arrVars == <<apc, alen, afail, ai, aj, built, dtors, afreed>>
restVars == <<eventVars, partVars, wevVars, tryVars, arrVars>>
sideVars == <<restVars, submitted>>

vars == <<node, state, slot, conts, sealed, flushList, pc, fpc, rpc,
          funcDestroyed, handed, invoked, termCalls, outcome, nextId,
          wpc, wtask, wseen, wgot, wreads, sideVars>>

taskVars == <<node, state, slot, conts, sealed, flushList, pc, fpc, rpc,
              funcDestroyed, handed, invoked, termCalls, outcome, nextId,
              submitted>>
waitVars == <<wpc, wtask, wseen, wgot, wreads>>

Inc(n) == IF n < 2 THEN n + 1 ELSE 2

NoOutcome == [k |-> "none", val |-> 0, ex |-> ""]
Returned(v) == [k |-> "ret", val |-> v, ex |-> ""]
Threw(e) == [k |-> "throw", val |-> e.val, ex |-> e.ex]
ReturnedTask == [k |-> "child", val |-> 0, ex |-> ""]

\* The parameter style of a continuation (value, void or task) and whether
\* the callable returns a task (unwrap) are template parameters of the
\* execution function. Nothing reads them before run dispatches to it, and
\* the model draws them there.
RootNode == [kind |-> "root", parent |-> 0, style |-> "none", unwrap |-> FALSE, sched |-> "S1"]
ContNode(p, s) == [kind |-> "cont", parent |-> p, style |-> "none", unwrap |-> FALSE, sched |-> s]
FwdNodeRec(ch) == [kind |-> "fwd", parent |-> ch, style |-> "task", unwrap |-> FALSE, sched |-> "inline"]

\* An event task has been created and no producer has called set() or
\* set_exception() yet.
EventInit ==
  /\ estate = "pending"
  /\ eslot = SlotNone
  /\ spc = [s \in Setters |-> "idle"]
  /\ skind = [s \in Setters |-> "none"]
  /\ sok = [s \in Setters |-> 0]
  /\ sfail = [s \in Setters |-> 0]

NoFrame == [lo |-> 0, hi |-> 0, cur |-> 0, pc |-> "none", task |-> FALSE,
            sub |-> 0, owner |-> 0, st |-> "none"]

\* parallel_for has not been called.
PartInit ==
  /\ ppc = "idle"
  /\ pfN = 0
  /\ pnw = 0
  /\ frame = [f \in FrameIds |-> NoFrame]
  /\ pstack = [w \in Workers |-> <<>>]
  /\ pqueue = [q \in Queues |-> <<>>]
  /\ visits = [i \in Elements |-> 0]
  /\ nextFrame = 1
  /\ pthrows = 0

\* task_wait_event() and init(): no event is pending, the mutex is free.
WevInit ==
  /\ event_mask = {}
  /\ mtx = 0
  /\ wvpc = "idle"
  /\ wres = {}
  /\ wslept = FALSE
  /\ gpc = [g \in Signalers |-> "idle"]
  /\ gbits = [g \in Signalers |-> {}]
  /\ gcount = [g \in Signalers |-> 0]
  /\ unconsumed = {}

TryInit ==
  /\ twev = {}
  /\ twret = FALSE
  /\ twflip = FALSE

ArrInit ==
  /\ apc = "idle"
  /\ alen = 0
  /\ afail = 0 - 1
  /\ ai = 0
  /\ aj = 0
  /\ built = [e \in 0..(MaxLength - 1) |-> 0]
  /\ dtors = [e \in 0..(MaxLength - 1) |-> 0]
  /\ afreed = 0

SideInit ==
  /\ EventInit /\ PartInit /\ WevInit /\ TryInit /\ ArrInit
  /\ submitted = [t \in Nodes |-> "none"]

\* task_base() : state(task_state::pending). Root task 1 has been created
\* and handed to its scheduler by spawn().
Init ==
  /\ node = [t \in Nodes |-> IF t = 1 THEN RootNode ELSE NoNode]
  /\ state = [t \in Nodes |-> "pending"]
  /\ slot = [t \in Nodes |-> SlotNone]
  /\ conts = [t \in Nodes |-> <<>>]
  /\ sealed = [t \in Nodes |-> FALSE]
  /\ flushList = [t \in Nodes |-> <<>>]
  /\ pc = [t \in Nodes |-> IF t = 1 THEN "scheduled" ELSE "none"]
  /\ fpc = [t \in Nodes |-> "idle"]
  /\ rpc = [t \in Nodes |-> "idle"]
  /\ funcDestroyed = [t \in Nodes |-> 0]
  /\ handed = [t \in Nodes |-> IF t = 1 THEN 1 ELSE 0]
  /\ invoked = [t \in Nodes |-> 0]
  /\ termCalls = [t \in Nodes |-> 0]
  /\ outcome = [t \in Nodes |-> NoOutcome]
  /\ nextId = 2
  /\ wpc = "idle"
  /\ wtask = 0
  /\ wseen = "none"
  /\ wgot = SlotNone
  /\ wreads = 0
  /\ SideInit

\* ------------------------------------------------------- returned frames
\* cancel()/cancel_base()/finish() on t has returned.
TermDone(t) == fpc[t] = "done"

\* vtable->run(t) has returned: after the finish()/cancel() it called, or,
\* when unwrapping, after then() in unwrapped_finish.
RunDone(t) ==
  \/ pc[t] = "ran" /\ TermDone(t)
  \/ pc[t] = "u_wait" /\
       \/ rpc[FwdNode(t)] = "added"
       \/ rpc[FwdNode(t)] = "direct_run" /\ pc[FwdNode(t)] = "ran" /\ TermDone(FwdNode(t))

\* ------------------------------------------------- continuation list
\* Faulty variant: a list that refuses every entry.
try_add_never(p) == FALSE

\* continuation_vector::try_add: true iff the entry was appended, false iff
\* the list has been sealed.
try_add(p) == ~sealed[p]

\* ------------------------------------------------------ add_continuation
\* Faulty variant: every state but pending is taken for finished.
AcDirectUnlessPending(cur) == IF cur = "pending" THEN "ac_try" ELSE "ac_direct"

\* The relaxed load of the state and the test on it.
AcAfterLoad(cur) == IF ~is_finished(cur) THEN "ac_try" ELSE "ac_direct"

\* Faulty variant: the registrant runs the continuation although try_add
\* stored it.
AcAlwaysDirect(ok) == "ac_direct"

\* The outcome of try_add: return on success, run the continuation
\* directly otherwise.
AcAfterTryAdd(ok) == IF ok THEN "added" ELSE "ac_direct"

\* then(sched, f) on a handle of p: the continuation node is created with
\* its scheduler stored in the union, and add_continuation reads p's state.
Then(p, s) ==
  /\ nextId <= MaxTasks
  /\ node[p].kind \in {"root", "cont"}
  /\ LET c == nextId IN
       /\ node' = [node EXCEPT ![c] = ContNode(p, s)]
       /\ slot' = [slot EXCEPT ![c] = SlotSched(s)]
       /\ pc' = [pc EXCEPT ![c] = "created"]
       /\ rpc' = [rpc EXCEPT ![c] = AcAfterLoad(state[p])]
       /\ nextId' = nextId + 1
  /\ UNCHANGED <<state, conts, sealed, flushList, fpc, funcDestroyed,
                 handed, invoked, termCalls, outcome>>
  /\ UNCHANGED <<waitVars, sideVars>>

TryAdd(c) ==
  /\ rpc[c] = "ac_try"
  /\ LET p == node[c].parent
         ok == try_add(p)
     IN /\ conts' = [conts EXCEPT ![p] = IF ok THEN Append(@, c) ELSE @]
        /\ rpc' = [rpc EXCEPT ![c] = AcAfterTryAdd(ok)]
  /\ UNCHANGED <<node, state, slot, sealed, flushList, pc, fpc,
                 funcDestroyed, handed, invoked, termCalls, outcome, nextId>>
  /\ UNCHANGED <<waitVars, sideVars>>

\* schedule_task accepted the task: it will be run (at once, by the caller,
\* on the inline scheduler).
Accepted(c) == [pc EXCEPT ![c] = IF @ = "created" THEN "scheduled" ELSE @]

\* Faulty variant: a schedule() that throws after it queued the task, so
\* that the continuation is canceled and run as well.
DirectRunBoth(c) ==
  /\ rpc[c] = "ac_direct"
  /\ handed' = [handed EXCEPT ![c] = Inc(@)]
  /\ submitted' = [submitted EXCEPT ![c] = node[c].sched]
  /\ pc' = Accepted(c)
  /\ \/ /\ rpc' = [rpc EXCEPT ![c] = "direct_run"]
        /\ UNCHANGED <<fpc, slot, funcDestroyed, termCalls>>
     \/ /\ node[c].sched # "inline"
        /\ funcDestroyed' = [funcDestroyed EXCEPT ![c] = Inc(@)]
        /\ slot' = [slot EXCEPT ![c] = set_exception(SchedExc)]
        /\ termCalls' = [termCalls EXCEPT ![c] = Inc(@)]
        /\ fpc' = [fpc EXCEPT ![c] = "c_store"]
        /\ rpc' = [rpc EXCEPT ![c] = "direct_cancel"]
  /\ UNCHANGED <<node, state, conts, sealed, flushList, invoked, outcome,
                 nextId>>
  /\ UNCHANGED <<waitVars, restVars>>

\* run_continuation passes std::move(cont) to schedule_task and uses cont
\* again in its catch clause. What cont holds there depends on whether the
\* call consumed the handle before it threw: the handle is intact, or it
\* has been moved from and is null.
ContAfterMove == {"intact", "null"}

\* run_continuation(sched, cont) on the direct path of add_continuation:
\* schedule_task, and cont->vtable->cancel(cont, current_exception()) when
\* it throws. task_func::cancel is destroy_func() and cancel_base(), which
\* begins with set_exception(). With a null cont the catch clause
\* dereferences a null pointer, and the thread gets no further.
DirectRun(c) ==
  /\ rpc[c] = "ac_direct"
  /\ handed' = [handed EXCEPT ![c] = Inc(@)]
  /\ submitted' = [submitted EXCEPT ![c] = node[c].sched]
  /\ \/ /\ pc' = Accepted(c)
        /\ rpc' = [rpc EXCEPT ![c] = "direct_run"]
        /\ UNCHANGED <<fpc, slot, funcDestroyed, termCalls>>
     \/ /\ node[c].sched # "inline"
        /\ \E h \in ContAfterMove :
             IF h = "intact"
               THEN /\ funcDestroyed' = [funcDestroyed EXCEPT ![c] = Inc(@)]
                    /\ slot' = [slot EXCEPT ![c] = set_exception(SchedExc)]
                    /\ termCalls' = [termCalls EXCEPT ![c] = Inc(@)]
                    /\ fpc' = [fpc EXCEPT ![c] = "c_store"]
                    /\ rpc' = [rpc EXCEPT ![c] = "direct_cancel"]
               ELSE /\ rpc' = [rpc EXCEPT ![c] = "crashed"]
                    /\ UNCHANGED <<funcDestroyed, slot, termCalls, fpc>>
        /\ UNCHANGED pc
  /\ UNCHANGED <<node, state, conts, sealed, flushList, invoked, outcome,
                 nextId>>
  /\ UNCHANGED <<waitVars, restVars>>

\* add_continuation(c) has returned.
RegDone(c) ==
  \/ rpc[c] = "added"
  \/ rpc[c] = "direct_run" /\ (node[c].sched = "inline" => RunDone(c))
  \/ rpc[c] = "direct_cancel" /\ TermDone(c)

\* ------------------------------------- cancel / cancel_base / finish
\* cancel_base after set_exception: state.store(canceled, release).
CancelStore(t) ==
  /\ fpc[t] = "c_store"
  /\ state' = [state EXCEPT ![t] = "canceled"]
  /\ fpc' = [fpc EXCEPT ![t] = "flush"]
  /\ UNCHANGED <<node, slot, conts, sealed, flushList, pc, rpc,
                 funcDestroyed, handed, invoked, termCalls, outcome, nextId>>
  /\ UNCHANGED <<waitVars, sideVars>>

\* Faulty variant: finish stores canceled.
FinishStoreCanceled(t) ==
  /\ fpc[t] = "f_store"
  /\ state' = [state EXCEPT ![t] = "canceled"]
  /\ fpc' = [fpc EXCEPT ![t] = "flush"]
  /\ UNCHANGED <<node, slot, conts, sealed, flushList, pc, rpc,
                 funcDestroyed, handed, invoked, termCalls, outcome, nextId>>
  /\ UNCHANGED <<waitVars, sideVars>>

\* finish: state.store(completed, release).
FinishStore(t) ==
  /\ fpc[t] = "f_store"
  /\ state' = [state EXCEPT ![t] = "completed"]
  /\ fpc' = [fpc EXCEPT ![t] = "flush"]
  /\ UNCHANGED <<node, slot, conts, sealed, flushList, pc, rpc,
                 funcDestroyed, handed, invoked, termCalls, outcome, nextId>>
  /\ UNCHANGED <<waitVars, sideVars>>

\* flush_and_lock has passed every entry to its callback.
FlushPos(rest) == IF rest = <<>> THEN "done" ELSE "flushing"

\* run_continuations: flush_and_lock seals the list and takes its entries.
FlushLock(t) ==
  /\ fpc[t] = "flush"
  /\ sealed' = [sealed EXCEPT ![t] = TRUE]
  /\ flushList' = [flushList EXCEPT ![t] = conts[t]]
  /\ conts' = [conts EXCEPT ![t] = <<>>]
  /\ fpc' = [fpc EXCEPT ![t] = FlushPos(conts[t])]
  /\ UNCHANGED <<node, state, slot, pc, rpc, funcDestroyed, handed,
                 invoked, termCalls, outcome, nextId>>
  /\ UNCHANGED <<waitVars, sideVars>>

\* Faulty variant: the scheduler is read from a place that holds an
\* arbitrary pointer.
SchedReadAny(c) == Scheds

\* task_func::schedule reads the scheduler from the continuation's union.
\* Reading the union after it was overwritten yields an arbitrary pointer.
SchedRead(c) == IF slot[c].tag = "sched" THEN {slot[c].ex} ELSE Scheds

\* Faulty variant: run_continuation without its catch clause. The
\* exception of schedule() leaves finish()/cancel_base() of t and reaches
\* the catch clause of run(t), which cancels t.
FlushNextLeak(t) ==
  /\ fpc[t] = "flushing"
  /\ flushList[t] # <<>>
  /\ LET c == Head(flushList[t]) IN
       /\ handed' = [handed EXCEPT ![c] = Inc(@)]
       /\ \E s \in SchedRead(c) :
            /\ submitted' = [submitted EXCEPT ![c] = s]
            /\ \/ /\ pc' = Accepted(c)
                  /\ IF s = "inline"
                       THEN /\ fpc' = [fpc EXCEPT ![t] = "flush_wait_run"]
                            /\ UNCHANGED flushList
                       ELSE /\ flushList' = [flushList EXCEPT ![t] = Tail(@)]
                            /\ fpc' = [fpc EXCEPT ![t] = FlushPos(Tail(flushList[t]))]
                  /\ UNCHANGED <<slot, funcDestroyed, termCalls>>
               \/ /\ s # "inline"
                  /\ funcDestroyed' = [funcDestroyed EXCEPT ![t] = Inc(@)]
                  /\ slot' = [slot EXCEPT ![t] = set_exception(SchedExc)]
                  /\ termCalls' = [termCalls EXCEPT ![t] = Inc(@)]
                  /\ fpc' = [fpc EXCEPT ![t] = "c_store"]
                  /\ UNCHANGED <<flushList, pc>>
  /\ UNCHANGED <<node, state, conts, sealed, rpc, invoked, outcome, nextId>>
  /\ UNCHANGED <<waitVars, restVars>>

\* The callback of flush_and_lock: vtable->schedule(this, t), that is
\* run_continuation with the entry's own scheduler.
FlushNext(t) ==
  /\ fpc[t] = "flushing"
  /\ flushList[t] # <<>>
  /\ LET c == Head(flushList[t]) IN
       /\ handed' = [handed EXCEPT ![c] = Inc(@)]
       /\ \E s \in SchedRead(c) :
            /\ submitted' = [submitted EXCEPT ![c] = s]
            /\ \/ /\ pc' = Accepted(c)
                  /\ IF s = "inline"
                       THEN /\ fpc' = [fpc EXCEPT ![t] = "flush_wait_run"]
                            /\ UNCHANGED flushList
                       ELSE /\ flushList' = [flushList EXCEPT ![t] = Tail(@)]
                            /\ fpc' = [fpc EXCEPT ![t] = FlushPos(Tail(flushList[t]))]
                  /\ UNCHANGED <<slot, funcDestroyed, termCalls>>
               \/ /\ s # "inline"
                  /\ \E h \in ContAfterMove :
                       IF h = "intact"
                         THEN /\ funcDestroyed' = [funcDestroyed EXCEPT ![c] = Inc(@)]
                              /\ slot' = [slot EXCEPT ![c] = set_exception(SchedExc)]
                              /\ termCalls' = [termCalls EXCEPT ![c] = Inc(@)]
                              /\ fpc' = [fpc EXCEPT ![t] = "flush_wait_cancel", ![c] = "c_store"]
                         ELSE /\ fpc' = [fpc EXCEPT ![t] = "crashed"]
                              /\ UNCHANGED <<funcDestroyed, slot, termCalls>>
                  /\ UNCHANGED <<flushList, pc>>
  /\ UNCHANGED <<node, state, conts, sealed, rpc, invoked, outcome, nextId>>
  /\ UNCHANGED <<waitVars, restVars>>

\* The callback has returned: the inline run, or the cancel of the entry.
FlushReturn(t) ==
  /\ flushList[t] # <<>>
  /\ \/ fpc[t] = "flush_wait_run" /\ RunDone(Head(flushList[t]))
     \/ fpc[t] = "flush_wait_cancel" /\ TermDone(Head(flushList[t]))
  /\ flushList' = [flushList EXCEPT ![t] = Tail(@)]
  /\ fpc' = [fpc EXCEPT ![t] = FlushPos(Tail(flushList[t]))]
  /\ UNCHANGED <<node, state, slot, conts, sealed, pc, rpc,
                 funcDestroyed, handed, invoked, termCalls, outcome, nextId>>
  /\ UNCHANGED <<waitVars, sideVars>>

\* --------------------------------------------------- execution functions
\* get_exception() / get_result() reinterpret the union: read while it
\* holds something else they return garbage.
get_exception(t) ==
  IF slot[t].tag = "except" THEN [ex |-> slot[t].ex, val |-> slot[t].val] ELSE Garbage
get_result(t) == IF slot[t].tag = "result" THEN slot[t].val ELSE 0 - 1

\* Faulty variant: the catch clause of run swallows the exception and
\* finishes the task.
RunCancelSwallow(t, e) ==
  /\ funcDestroyed' = [funcDestroyed EXCEPT ![t] = Inc(@)]
  /\ slot' = [slot EXCEPT ![t] = set_result(0)]
  /\ termCalls' = [termCalls EXCEPT ![t] = Inc(@)]
  /\ fpc' = [fpc EXCEPT ![t] = "f_store"]
  /\ pc' = [pc EXCEPT ![t] = "ran"]

\* task_func::cancel(t, e): destroy_func(), then cancel_base(e), which
\* begins with set_exception(e). Called by the catch clause of run and by
\* the value continuation of a canceled parent.
RunCancel(t, e) ==
  /\ funcDestroyed' = [funcDestroyed EXCEPT ![t] = Inc(@)]
  /\ slot' = [slot EXCEPT ![t] = set_exception(e)]
  /\ termCalls' = [termCalls EXCEPT ![t] = Inc(@)]
  /\ fpc' = [fpc EXCEPT ![t] = "c_store"]
  /\ pc' = [pc EXCEPT ![t] = "ran"]

\* Faulty variant: the function object is kept when the task finishes.
RunCompleteKeepsFunc(t, v) ==
  /\ slot' = [slot EXCEPT ![t] = set_result(v)]
  /\ UNCHANGED funcDestroyed
  /\ termCalls' = [termCalls EXCEPT ![t] = Inc(@)]
  /\ fpc' = [fpc EXCEPT ![t] = "f_store"]
  /\ pc' = [pc EXCEPT ![t] = "ran"]

\* set_result(invoke_fake_void(...)); destroy_func(); finish().
RunComplete(t, v) ==
  /\ slot' = [slot EXCEPT ![t] = set_result(v)]
  /\ funcDestroyed' = [funcDestroyed EXCEPT ![t] = Inc(@)]
  /\ termCalls' = [termCalls EXCEPT ![t] = Inc(@)]
  /\ fpc' = [fpc EXCEPT ![t] = "f_store"]
  /\ pc' = [pc EXCEPT ![t] = "ran"]

\* The number of tasks whose callable returns a task.
Unwrapping == Cardinality({q \in UserIds : node[q].unwrap})

\* Faulty variants: no continuation tests its parent's state; every
\* continuation does.
ParentCanceledNever(st, p) == FALSE
ParentCanceledAny(st, p) == st # "none" /\ state[p] = "canceled"

\* The test that opens the value and void continuations:
\* parent->state.load(relaxed) == task_state::canceled.
ParentCanceled(st, p) == st = "value" /\ state[p] = "canceled"

\* vtable->run(t) of a root or continuation task: the execution function
\* (of parameter style st, unwrapping iff u) invokes the user callable,
\* which throws, returns a value, or (when unwrapping) returns a task;
\* unwrapped_finish then stores unwrapped.
RunTask(t, st, u) ==
  /\ pc[t] = "scheduled"
  /\ node[t].kind \in {"root", "cont"}
  /\ (st = "none") = (node[t].kind = "root")
  /\ u => t \in UserIds /\ Unwrapping < MaxUnwrap
  /\ LET p == node[t].parent IN
     IF ParentCanceled(st, p)
       THEN /\ RunCancel(t, get_exception(p))
            /\ node' = [node EXCEPT ![t].style = st, ![t].unwrap = u]
            /\ UNCHANGED <<state, handed, invoked, outcome>>
       ELSE /\ invoked' = [invoked EXCEPT ![t] = Inc(@)]
            /\ \/ /\ outcome' = [outcome EXCEPT ![t] = Threw(UserExc(t))]
                  /\ RunCancel(t, UserExc(t))
                  /\ node' = [node EXCEPT ![t].style = st, ![t].unwrap = u]
                  /\ UNCHANGED <<state, handed>>
               \/ /\ ~u
                  /\ outcome' = [outcome EXCEPT ![t] = Returned(ValueOf(t))]
                  /\ RunComplete(t, ValueOf(t))
                  /\ node' = [node EXCEPT ![t].style = st, ![t].unwrap = u]
                  /\ UNCHANGED <<state, handed>>
               \/ /\ u
                  /\ outcome' = [outcome EXCEPT ![t] = ReturnedTask]
                  /\ node' = [node EXCEPT ![t].style = st, ![t].unwrap = u,
                                          ![ChildNode(t)] = RootNode]
                  /\ handed' = [handed EXCEPT ![ChildNode(t)] = 1]
                  /\ pc' = [pc EXCEPT ![t] = "u_finish", ![ChildNode(t)] = "scheduled"]
                  /\ state' = [state EXCEPT ![t] = "unwrapped"]
                  /\ UNCHANGED <<slot, termCalls, fpc, funcDestroyed>>
  /\ UNCHANGED <<conts, sealed, flushList, rpc, nextId>>
  /\ UNCHANGED <<waitVars, sideVars>>

\* unwrapped_finish after the store of unwrapped: destroy_func(), then
\* child_task.then(inline_scheduler(), unwrapped_func(parent)), whose
\* add_continuation reads the child's state; if then() throws,
\* cancel_base(current_exception()).
UnwrapFinish(t) ==
  /\ pc[t] = "u_finish"
  /\ funcDestroyed' = [funcDestroyed EXCEPT ![t] = Inc(@)]
  /\ \/ /\ node' = [node EXCEPT ![FwdNode(t)] = FwdNodeRec(ChildNode(t))]
        /\ slot' = [slot EXCEPT ![FwdNode(t)] = SlotSched("inline")]
        /\ pc' = [pc EXCEPT ![t] = "u_wait", ![FwdNode(t)] = "created"]
        /\ rpc' = [rpc EXCEPT ![FwdNode(t)] = AcAfterLoad(state[ChildNode(t)])]
        /\ UNCHANGED <<termCalls, fpc>>
     \/ /\ slot' = [slot EXCEPT ![t] = set_exception(ThenExc)]
        /\ termCalls' = [termCalls EXCEPT ![t] = Inc(@)]
        /\ fpc' = [fpc EXCEPT ![t] = "c_store"]
        /\ pc' = [pc EXCEPT ![t] = "ran"]
        /\ UNCHANGED <<node, rpc>>
  /\ UNCHANGED <<state, conts, sealed, flushList, handed, invoked, outcome,
                 nextId>>
  /\ UNCHANGED <<waitVars, sideVars>>

\* -------------------------------------------------------- unwrapped_func
\* The task whose function returned the child that f forwards.
Outer(f) == f - 2 * MaxTasks

\* Faulty variant: unwrapped_func forwards a result without looking at the
\* child's state.
FwdRunNoCheck(f) ==
  /\ pc[f] = "scheduled"
  /\ node[f].kind = "fwd"
  /\ invoked' = [invoked EXCEPT ![f] = Inc(@)]
  /\ termCalls' = [termCalls EXCEPT ![Outer(f)] = Inc(@)]
  /\ slot' = [slot EXCEPT ![Outer(f)] = set_result(get_result(node[f].parent))]
  /\ fpc' = [fpc EXCEPT ![Outer(f)] = "f_store"]
  /\ pc' = [pc EXCEPT ![f] = "fw_wait"]
  /\ UNCHANGED <<node, state, conts, sealed, flushList, rpc, funcDestroyed,
                 handed, outcome, nextId>>
  /\ UNCHANGED <<waitVars, sideVars>>

\* Faulty variant: the catch clause of unwrapped_func stores the exception
\* and calls finish().
FwdRunCopyFinishes(f) ==
  /\ pc[f] = "scheduled"
  /\ node[f].kind = "fwd"
  /\ invoked' = [invoked EXCEPT ![f] = Inc(@)]
  /\ LET ch == node[f].parent
         p == Outer(f)
     IN /\ termCalls' = [termCalls EXCEPT ![p] = Inc(@)]
        /\ IF state[ch] = "completed"
             THEN \/ /\ slot' = [slot EXCEPT ![p] = set_result(get_result(ch))]
                     /\ fpc' = [fpc EXCEPT ![p] = "f_store"]
                  \/ /\ slot' = [slot EXCEPT ![p] = set_exception(CopyExc)]
                     /\ fpc' = [fpc EXCEPT ![p] = "f_store"]
             ELSE /\ slot' = [slot EXCEPT ![p] = set_exception(get_exception(ch))]
                  /\ fpc' = [fpc EXCEPT ![p] = "c_store"]
  /\ pc' = [pc EXCEPT ![f] = "fw_wait"]
  /\ UNCHANGED <<node, state, conts, sealed, flushList, rpc, funcDestroyed,
                 handed, outcome, nextId>>
  /\ UNCHANGED <<waitVars, sideVars>>

\* unwrapped_func::operator(): forward the child's outcome to the outer
\* task: set_result and finish(), or cancel_base with the child's exception;
\* a throwing copy of the result ends in cancel_base as well.
FwdRun(f) ==
  /\ pc[f] = "scheduled"
  /\ node[f].kind = "fwd"
  /\ invoked' = [invoked EXCEPT ![f] = Inc(@)]
  /\ LET ch == node[f].parent
         p == Outer(f)
     IN /\ termCalls' = [termCalls EXCEPT ![p] = Inc(@)]
        /\ IF state[ch] = "completed"
             THEN \/ /\ slot' = [slot EXCEPT ![p] = set_result(get_result(ch))]
                     /\ fpc' = [fpc EXCEPT ![p] = "f_store"]
                  \/ /\ slot' = [slot EXCEPT ![p] = set_exception(CopyExc)]
                     /\ fpc' = [fpc EXCEPT ![p] = "c_store"]
             ELSE /\ slot' = [slot EXCEPT ![p] = set_exception(get_exception(ch))]
                  /\ fpc' = [fpc EXCEPT ![p] = "c_store"]
  /\ pc' = [pc EXCEPT ![f] = "fw_wait"]
  /\ UNCHANGED <<node, state, conts, sealed, flushList, rpc, funcDestroyed,
                 handed, outcome, nextId>>
  /\ UNCHANGED <<waitVars, sideVars>>

\* unwrapped_func has returned: the forwarding node is itself a task-style
\* continuation returning void, so it stores fake_void, destroys its
\* function and calls finish(). then() in unwrapped_finish drops the handle
\* of the forwarding node, so its list is empty and stays empty: the store
\* and the flush of nothing are one step.
FwdReturn(f) ==
  /\ pc[f] = "fw_wait"
  /\ TermDone(Outer(f))
  /\ slot' = [slot EXCEPT ![f] = set_result(0)]
  /\ funcDestroyed' = [funcDestroyed EXCEPT ![f] = Inc(@)]
  /\ termCalls' = [termCalls EXCEPT ![f] = Inc(@)]
  /\ state' = [state EXCEPT ![f] = "completed"]
  /\ sealed' = [sealed EXCEPT ![f] = TRUE]
  /\ fpc' = [fpc EXCEPT ![f] = "done"]
  /\ pc' = [pc EXCEPT ![f] = "ran"]
  /\ UNCHANGED <<node, conts, flushList, rpc, handed, invoked, outcome,
                 nextId>>
  /\ UNCHANGED <<waitVars, sideVars>>

\* ------------------------------------------------------------ event task
\* Faulty variant: the exchange takes every state that is not finished.
event_cas_unfinished(cur) == ~is_finished(cur)

\* The compare-and-swap that opens set() and set_exception(): it succeeds
\* on pending only, and then stores locked.
event_cas(cur) == cur = "pending"

\* A producer calls set(v) or set_exception(e): the exchange
\* pending -> locked; when it fails the call fails with task-already-set.
SetBegin(s, k) ==
  /\ spc[s] = "idle"
  /\ sok[s] + sfail[s] < MaxAttempts
  /\ IF event_cas(estate)
       THEN /\ estate' = "locked"
            /\ spc' = [spc EXCEPT ![s] = "write"]
            /\ skind' = [skind EXCEPT ![s] = k]
            /\ UNCHANGED sfail
       ELSE /\ sfail' = [sfail EXCEPT ![s] = @ + 1]
            /\ UNCHANGED <<estate, spc, skind>>
  /\ UNCHANGED <<eslot, sok>>
  /\ UNCHANGED <<taskVars, waitVars, partVars, wevVars, tryVars, arrVars>>

\* The holder of the lock writes the result or the exception.
SetWrite(s) ==
  /\ spc[s] = "write"
  /\ eslot' = IF skind[s] = "value" THEN set_result(ValueOf(s))
                                  ELSE set_exception(UserExc(s))
  /\ spc' = [spc EXCEPT ![s] = "store"]
  /\ UNCHANGED <<estate, skind, sok, sfail>>
  /\ UNCHANGED <<taskVars, waitVars, partVars, wevVars, tryVars, arrVars>>

\* The holder of the lock stores the terminal state and returns.
SetStore(s) ==
  /\ spc[s] = "store"
  /\ estate' = IF skind[s] = "value" THEN "completed" ELSE "canceled"
  /\ spc' = [spc EXCEPT ![s] = "idle"]
  /\ sok' = [sok EXCEPT ![s] = @ + 1]
  /\ UNCHANGED <<eslot, skind, sfail>>
  /\ UNCHANGED <<taskVars, waitVars, partVars, wevVars, tryVars, arrVars>>

NextEvent ==
  \E s \in Setters :
    \/ \E k \in SetKinds : SetBegin(s, k)
    \/ SetWrite(s)
    \/ SetStore(s)

\* The producers of one event task.
EventSpec == Init /\ [][NextEvent]_vars

\* ---------------------------------------------------------- parallel_for
Top(w) == pstack[w][Len(pstack[w])]
Pop(q) == SubSeq(q, 1, Len(q) - 1)

\* Faulty variant: spawned tasks go to a shared queue, which a thread
\* blocked in a join does not serve.
shared_spawn_queue(w) == 0

\* local_spawn: the task goes to the local queue of the spawning worker.
local_spawn_queue(w) == w

\* Faulty variant: the partitioner drops the first element it keeps.
split_rest_skip(m, hi) == [lo |-> m + 1, hi |-> hi]

\* partitioner.split() on [lo, hi) at m: it returns [lo, m) and keeps
\* [m, hi). m = lo is the empty result of a partitioner that does not
\* split; otherwise both parts are non-empty.
split_sub(lo, m) == [lo |-> lo, hi |-> m]
split_rest(m, hi) == [lo |-> m, hi |-> hi]
SplitPoints(lo, hi) == {lo} \cup ((lo + 1)..(hi - 1))

\* parallel_for(sched, range, func) over [0, n) on a scheduler of k
\* workers, called on worker 1.
ParStart(n, k) ==
  /\ ppc = "idle"
  /\ ppc' = "running"
  /\ pfN' = n
  /\ pnw' = k
  /\ frame' = [frame EXCEPT ![1] = [lo |-> 0, hi |-> n, cur |-> 0, pc |-> "split",
                                    task |-> FALSE, sub |-> 0, owner |-> 0,
                                    st |-> "none"]]
  /\ pstack' = [pstack EXCEPT ![1] = <<1>>]
  /\ nextFrame' = 2
  /\ UNCHANGED <<pqueue, visits, pthrows>>
  /\ UNCHANGED <<taskVars, waitVars, eventVars, wevVars, tryVars, arrVars>>

\* internal_parallel_for, lines 34-60: split; with an empty subpart go on
\* to the loop; otherwise spawn the subpart as a local task and call
\* internal_parallel_for on the rest.
PfSplit(w, m) ==
  /\ w <= pnw /\ pstack[w] # <<>>
  /\ LET f == Top(w)
         fr == frame[f]
     IN /\ fr.pc = "split"
        /\ m \in SplitPoints(fr.lo, fr.hi)
        /\ IF m = fr.lo
             THEN /\ frame' = [frame EXCEPT ![f].pc = "loop", ![f].cur = fr.lo]
                  /\ UNCHANGED <<pstack, pqueue, nextFrame>>
             ELSE LET g == nextFrame
                      h == nextFrame + 1
                      sub == split_sub(fr.lo, m)
                      rest == split_rest(m, fr.hi)
                  IN /\ frame' = [frame EXCEPT
                            ![f].pc = "rec", ![f].sub = g,
                            ![g] = [lo |-> sub.lo, hi |-> sub.hi, cur |-> sub.lo,
                                    pc |-> "split", task |-> TRUE, sub |-> 0,
                                    owner |-> f, st |-> "queued"],
                            ![h] = [lo |-> rest.lo, hi |-> rest.hi, cur |-> rest.lo,
                                    pc |-> "split", task |-> FALSE, sub |-> 0,
                                    owner |-> 0, st |-> "none"]]
                     /\ pqueue' = [pqueue EXCEPT ![local_spawn_queue(w)] = Append(@, g)]
                     /\ pstack' = [pstack EXCEPT ![w] = Append(@, h)]
                     /\ nextFrame' = nextFrame + 2
  /\ UNCHANGED <<ppc, pfN, pnw, visits, pthrows>>
  /\ UNCHANGED <<taskVars, waitVars, eventVars, wevVars, tryVars, arrVars>>

\* What the destructor of the handle t of line 57 does when an exception
\* passes it: neither the source nor the specification has the type that
\* local_spawn returns. It drops its reference (the invocation goes on
\* unwinding), or it waits for the task first.
HandleDestroyed == {"unwind", "unwind_join"}

\* The invocation on top of w's stack is left, by return or (exc) by an
\* exception. A spawned task is then completed or canceled (task_func::run
\* catches); a call made at line 60 returns to its caller, which goes on to
\* t.get(), or passes the exception through it, past t.get(), so that the
\* handle t is destroyed.
PfLeave(w, exc) ==
  LET f == Top(w)
      rest == Pop(pstack[w])
      caller == IF rest = <<>> THEN 0 ELSE rest[Len(rest)]
  IN /\ pstack' = [pstack EXCEPT ![w] = rest]
     /\ \E d \in HandleDestroyed :
          frame' = [g \in FrameIds |->
            IF g = f
              THEN [frame[f] EXCEPT !.pc = "left",
                                    !.st = IF ~frame[f].task THEN @
                                           ELSE IF exc THEN "canceled" ELSE "done"]
            ELSE IF g = caller /\ ~frame[f].task
              THEN [frame[g] EXCEPT !.pc = IF exc THEN d ELSE "join"]
            ELSE frame[g]]
     /\ ppc' = IF f # 1 THEN ppc ELSE IF exc THEN "threw" ELSE "returned"

\* Lines 38-39: func(i) on the next element of the range; it returns or
\* throws.
PfVisit(w) ==
  /\ w <= pnw /\ pstack[w] # <<>>
  /\ LET f == Top(w) IN
       /\ frame[f].pc = "loop"
       /\ frame[f].cur < frame[f].hi
       /\ visits' = [visits EXCEPT ![frame[f].cur] = @ + 1]
       /\ \/ /\ frame' = [frame EXCEPT ![f].cur = @ + 1]
             /\ UNCHANGED pthrows
          \/ /\ pthrows < MaxThrows
             /\ pthrows' = pthrows + 1
             /\ frame' = [frame EXCEPT ![f].pc = "unwind"]
  /\ UNCHANGED <<ppc, pfN, pnw, pstack, pqueue, nextFrame>>
  /\ UNCHANGED <<taskVars, waitVars, eventVars, wevVars, tryVars, arrVars>>

\* Line 40: the loop is over, return.
PfLoopEnd(w) ==
  /\ w <= pnw /\ pstack[w] # <<>>
  /\ frame[Top(w)].pc = "loop"
  /\ frame[Top(w)].cur = frame[Top(w)].hi
  /\ PfLeave(w, FALSE)
  /\ UNCHANGED <<pfN, pnw, pqueue, visits, nextFrame, pthrows>>
  /\ UNCHANGED <<taskVars, waitVars, eventVars, wevVars, tryVars, arrVars>>

\* An exception leaves the invocation.
PfUnwind(w) ==
  /\ w <= pnw /\ pstack[w] # <<>>
  /\ frame[Top(w)].pc = "unwind"
  /\ PfLeave(w, TRUE)
  /\ UNCHANGED <<pfN, pnw, pqueue, visits, nextFrame, pthrows>>
  /\ UNCHANGED <<taskVars, waitVars, eventVars, wevVars, tryVars, arrVars>>

\* Line 62, t.get() on a finished task: return, or rethrow its exception.
PfJoin(w) ==
  /\ w <= pnw /\ pstack[w] # <<>>
  /\ frame[Top(w)].pc = "join"
  /\ frame[frame[Top(w)].sub].st \in {"done", "canceled"}
  /\ PfLeave(w, frame[frame[Top(w)].sub].st = "canceled")
  /\ UNCHANGED <<pfN, pnw, pqueue, visits, nextFrame, pthrows>>
  /\ UNCHANGED <<taskVars, waitVars, eventVars, wevVars, tryVars, arrVars>>

\* The destructor of a handle that waits: the task is finished, and the
\* exception goes on.
PfJoinUnwinding(w) ==
  /\ w <= pnw /\ pstack[w] # <<>>
  /\ frame[Top(w)].pc = "unwind_join"
  /\ frame[frame[Top(w)].sub].st \in {"done", "canceled"}
  /\ frame' = [frame EXCEPT ![Top(w)].pc = "unwind"]
  /\ UNCHANGED <<ppc, pfN, pnw, pstack, pqueue, visits, nextFrame, pthrows>>
  /\ UNCHANGED <<taskVars, waitVars, eventVars, wevVars, tryVars, arrVars>>

\* Worker w starts task g: the lambda of line 57 reads subpart through the
\* reference it captured. When the invocation that owns subpart has been
\* left, that reference dangles: the task runs on what the dead frame
\* still holds, or the thread faults.
PfRun(w, g) ==
  /\ \/ /\ frame' = [frame EXCEPT ![g].st = "running"]
        /\ pstack' = [pstack EXCEPT ![w] = Append(@, g)]
     \/ /\ frame[frame[g].owner].pc = "left"
        /\ frame' = [frame EXCEPT ![g].st = "crashed"]
        /\ UNCHANGED pstack

\* Line 62, t.get() on a task that is not finished (or the wait of a
\* handle's destructor): the blocked thread serves its own local queue,
\* newest entry first.
PfServe(w) ==
  /\ w <= pnw /\ pstack[w] # <<>>
  /\ frame[Top(w)].pc \in {"join", "unwind_join"}
  /\ frame[frame[Top(w)].sub].st \notin {"done", "canceled"}
  /\ pqueue[w] # <<>>
  /\ pqueue' = [pqueue EXCEPT ![w] = Pop(@)]
  /\ PfRun(w, pqueue[w][Len(pqueue[w])])
  /\ UNCHANGED <<ppc, pfN, pnw, visits, nextFrame, pthrows>>
  /\ UNCHANGED <<taskVars, waitVars, eventVars, wevVars, tryVars, arrVars>>

\* An idle worker takes the oldest entry of a queue, its own or another.
PfTake(w, q) ==
  /\ w <= pnw /\ pstack[w] = <<>>
  /\ pqueue[q] # <<>>
  /\ pqueue' = [pqueue EXCEPT ![q] = Tail(@)]
  /\ PfRun(w, Head(pqueue[q]))
  /\ UNCHANGED <<ppc, pfN, pnw, visits, nextFrame, pthrows>>
  /\ UNCHANGED <<taskVars, waitVars, eventVars, wevVars, tryVars, arrVars>>

PfStep(w) ==
  \/ \E m \in Elements : PfSplit(w, m)
  \/ PfVisit(w) \/ PfLoopEnd(w) \/ PfUnwind(w)
  \/ PfJoin(w) \/ PfJoinUnwinding(w) \/ PfServe(w)
  \/ \E q \in Queues : PfTake(w, q)

NextPart ==
  \/ \E n \in 0..MaxRange, k \in Workers : ParStart(n, k)
  \/ \E w \in Workers : PfStep(w)

\* One call of parallel_for; every worker thread keeps running.
PartSpec == Init /\ [][NextPart]_vars /\ \A w \in Workers : WF_vars(PfStep(w))

\* ------------------------------------------------------- task_wait_event
\* Faulty variant: wait() leaves the mask as it is.
wait_clear_kept(mask) == mask

\* wait(), line 87: event_mask = 0.
wait_clear(mask) == {}

\* Faulty variant: a notify that wakes nobody.
notify_none(p) == p

\* cond().notify_one(): a thread blocked in cond().wait is woken; without
\* one the call has no effect.
notify_one(p) == IF p = "sleeping" THEN "woken" ELSE p

\* The waiting thread calls wait().
WevCall ==
  /\ wvpc \in {"idle", "returned"}
  /\ wvpc' = "lock"
  /\ wres' = {}
  /\ wslept' = FALSE
  /\ UNCHANGED <<event_mask, mtx, gpc, gbits, gcount, unconsumed>>
  /\ UNCHANGED <<taskVars, waitVars, eventVars, partVars, tryVars, arrVars>>

\* It takes the mutex: by the unique_lock of line 83, or again inside
\* cond().wait after it has been woken.
WevLock ==
  /\ wvpc \in {"lock", "woken"}
  /\ mtx = 0
  /\ mtx' = WaiterId
  /\ wvpc' = "check"
  /\ UNCHANGED <<event_mask, wres, wslept, gpc, gbits, gcount, unconsumed>>
  /\ UNCHANGED <<taskVars, waitVars, eventVars, partVars, tryVars, arrVars>>

\* Lines 84-88 under the mutex: with an empty mask cond().wait releases the
\* mutex and blocks; otherwise the mask is read and cleared and wait()
\* returns, which releases the mutex.
WevCheck ==
  /\ wvpc = "check"
  /\ mtx' = 0
  /\ IF event_mask = {}
       THEN /\ wvpc' = "sleeping"
            /\ wslept' = TRUE
            /\ UNCHANGED <<event_mask, wres, unconsumed>>
       ELSE /\ wres' = event_mask
            /\ event_mask' = wait_clear(event_mask)
            /\ unconsumed' = unconsumed \ event_mask
            /\ wvpc' = "returned"
            /\ UNCHANGED wslept
  /\ UNCHANGED <<gpc, gbits, gcount>>
  /\ UNCHANGED <<taskVars, waitVars, eventVars, partVars, tryVars, arrVars>>

\* cond().wait may return without a notify.
WevSpurious ==
  /\ wvpc = "sleeping"
  /\ wvpc' = "woken"
  /\ UNCHANGED <<event_mask, mtx, wres, wslept, gpc, gbits, gcount, unconsumed>>
  /\ UNCHANGED <<taskVars, waitVars, eventVars, partVars, tryVars, arrVars>>

\* Faulty variant: the mutex is released before the notify.
SigLockUnlockFirst(g, bits) ==
  /\ gpc[g] = "idle"
  /\ gcount[g] < MaxSignals
  /\ mtx = 0
  /\ mtx' = 0
  /\ event_mask' = event_mask \cup bits
  /\ unconsumed' = unconsumed \cup bits
  /\ gbits' = [gbits EXCEPT ![g] = bits]
  /\ gpc' = [gpc EXCEPT ![g] = "notify"]
  /\ UNCHANGED <<wvpc, wres, wslept, gcount>>
  /\ UNCHANGED <<taskVars, waitVars, eventVars, partVars, tryVars, arrVars>>

\* signal(event), lines 103-104: take the mutex, event_mask |= event.
SigLock(g, bits) ==
  /\ gpc[g] = "idle"
  /\ gcount[g] < MaxSignals
  /\ mtx = 0
  /\ mtx' = g
  /\ event_mask' = event_mask \cup bits
  /\ unconsumed' = unconsumed \cup bits
  /\ gbits' = [gbits EXCEPT ![g] = bits]
  /\ gpc' = [gpc EXCEPT ![g] = "notify"]
  /\ UNCHANGED <<wvpc, wres, wslept, gcount>>
  /\ UNCHANGED <<taskVars, waitVars, eventVars, partVars, tryVars, arrVars>>

\* Line 110: cond().notify_one(), with the mutex held.
SigNotify(g) ==
  /\ gpc[g] = "notify"
  /\ wvpc' = notify_one(wvpc)
  /\ gpc' = [gpc EXCEPT ![g] = "unlock"]
  /\ UNCHANGED <<event_mask, mtx, wres, wslept, gbits, gcount, unconsumed>>
  /\ UNCHANGED <<taskVars, waitVars, eventVars, partVars, tryVars, arrVars>>

\* Line 111: lock.unlock(), and return.
SigUnlock(g) ==
  /\ gpc[g] = "unlock"
  /\ mtx' = 0
  /\ gpc' = [gpc EXCEPT ![g] = "idle"]
  /\ gcount' = [gcount EXCEPT ![g] = @ + 1]
  /\ UNCHANGED <<event_mask, wvpc, wres, wslept, gbits, unconsumed>>
  /\ UNCHANGED <<taskVars, waitVars, eventVars, partVars, tryVars, arrVars>>

WevWaiter == WevCall \/ WevLock \/ WevCheck

SigFinish(g) == SigNotify(g) \/ SigUnlock(g)

NextWev ==
  \/ WevWaiter
  \/ WevSpurious
  \/ \E g \in Signalers :
       \/ \E bits \in (SUBSET WaitTypes) \ {{}} : SigLock(g, bits)
       \/ SigFinish(g)

\* One thread that calls wait() again and again and threads that call
\* signal(). The waiting thread keeps running and a signal() that has
\* taken the mutex runs to its end; no wake-up without notify is promised.
WevSpec ==
  /\ Init /\ [][NextWev]_vars
  /\ WF_vars(WevWaiter)
  /\ \A g \in Signalers : WF_vars(SigFinish(g))

\* Faulty variant: try_wait() clears the whole mask.
try_clear_all(mask, event) == {}

\* try_wait(), line 96: event_mask &= ~event.
try_clear(mask, event) == mask \ event

\* try_wait(), line 95: result = event_mask & event.
try_peek(mask, event) == mask \cap event

\* try_wait(event), lines 94-97, by the thread that also calls wait(): the
\* lock_guard holds the mutex from the first line to the return.
TryWait(event) ==
  /\ wvpc \in {"idle", "returned"}
  /\ mtx = 0
  /\ twev' = event
  /\ twret' = (try_peek(event_mask, event) # {})
  /\ twflip' = ~twflip
  /\ event_mask' = try_clear(event_mask, event)
  /\ unconsumed' = unconsumed \ try_peek(event_mask, event)
  /\ UNCHANGED <<mtx, wvpc, wres, wslept, gpc, gbits, gcount>>
  /\ UNCHANGED <<taskVars, waitVars, eventVars, partVars, arrVars>>

\* Every call of signal() on this event has updated the mask and the
\* waiting thread has taken all the bits.
AllSignalsReceived ==
  /\ \A g \in Signalers :
       gcount[g] + (IF gpc[g] = "idle" THEN 0 ELSE 1) = MaxSignals
  /\ event_mask = {}

\* ~task_wait_event(), lines 61-67: the thread that has returned from
\* wait() destroys the mutex and the condition variable, when it has
\* received the last signal.
WevDestroy ==
  /\ wvpc = "returned"
  /\ AllSignalsReceived
  /\ wvpc' = "destroyed"
  /\ UNCHANGED <<event_mask, mtx, wres, wslept, gpc, gbits, gcount, unconsumed>>
  /\ UNCHANGED <<taskVars, waitVars, eventVars, partVars, tryVars, arrVars>>

NextWevUse ==
  \/ NextWev
  \/ \E event \in (SUBSET WaitTypes) \ {{}} : TryWait(event)
  \/ WevDestroy

\* The event with all its operations: wait(), try_wait(), signal() and the
\* destructor.
WevUseSpec == Init /\ [][NextWevUse]_vars

\* -------------------------------------------------------- aligned_array
\* The element the rollback loop destroys in the iteration with loop
\* variables i and j: line 55, ptr[i].~T().
rollback_index(i, j) == i

\* aligned_array(length), lines 43-46: the block is allocated and the
\* construction loop begins. The default constructor of element f throws
\* (none does when f = -1).
ArrStart(n, f) ==
  /\ apc \in {"idle", "built", "rethrown"}
  /\ f < n
  /\ apc' = "build"
  /\ alen' = n
  /\ afail' = f
  /\ ai' = 0
  /\ aj' = 0
  /\ built' = [e \in 0..(MaxLength - 1) |-> 0]
  /\ dtors' = [e \in 0..(MaxLength - 1) |-> 0]
  /\ afreed' = 0
  /\ UNCHANGED <<taskVars, waitVars, eventVars, partVars, wevVars, tryVars>>

\* Lines 48-49: new(ptr + i) T returns, i++.
ArrConstruct ==
  /\ apc = "build"
  /\ ai < alen
  /\ ai # afail
  /\ built' = [built EXCEPT ![ai] = @ + 1]
  /\ ai' = ai + 1
  /\ UNCHANGED <<apc, alen, afail, aj, dtors, afreed>>
  /\ UNCHANGED <<taskVars, waitVars, eventVars, partVars, wevVars, tryVars>>

\* Lines 49-50: new(ptr + i) T throws; the catch clause is entered with i
\* the index of the element that failed.
ArrThrow ==
  /\ apc = "build"
  /\ ai < alen
  /\ ai = afail
  /\ apc' = "rollback"
  /\ aj' = 0
  /\ UNCHANGED <<alen, afail, ai, built, dtors, afreed>>
  /\ UNCHANGED <<taskVars, waitVars, eventVars, partVars, wevVars, tryVars>>

\* Line 48 with i = length: the constructor returns.
ArrBuilt ==
  /\ apc = "build"
  /\ ai = alen
  /\ apc' = "built"
  /\ UNCHANGED <<alen, afail, ai, aj, built, dtors, afreed>>
  /\ UNCHANGED <<taskVars, waitVars, eventVars, partVars, wevVars, tryVars>>

\* Lines 54-55: one iteration of the rollback loop.
ArrRollback ==
  /\ apc = "rollback"
  /\ aj < ai
  /\ dtors' = [dtors EXCEPT ![rollback_index(ai, aj)] = @ + 1]
  /\ aj' = aj + 1
  /\ UNCHANGED <<apc, alen, afail, ai, built, afreed>>
  /\ UNCHANGED <<taskVars, waitVars, eventVars, partVars, wevVars, tryVars>>

\* Lines 56-57: aligned_free(ptr) and the rethrow.
ArrFree ==
  /\ apc = "rollback"
  /\ aj = ai
  /\ afreed' = afreed + 1
  /\ apc' = "rethrown"
  /\ UNCHANGED <<alen, afail, ai, aj, built, dtors>>
  /\ UNCHANGED <<taskVars, waitVars, eventVars, partVars, wevVars, tryVars>>

NextArr ==
  \/ \E n \in 0..MaxLength, f \in (0 - 1)..(MaxLength - 1) : ArrStart(n, f)
  \/ ArrConstruct \/ ArrThrow \/ ArrBuilt
  \/ ArrRollback \/ ArrFree

\* Calls of the constructor aligned_array(length), one after the other.
ArrSpec == Init /\ [][NextArr]_vars

\* ------------------------------------------------ wait / wait_and_throw
\* Faulty variant: a relaxed first load.
wait_load_relaxed == "relaxed"

\* The memory order of the first load of wait() (and of the load of
\* ready()).
wait_load_order == "acquire"

\* task_base::wait: the first load; a finished task is returned at once.
\* Only an acquire load that reads the terminal state synchronizes with
\* the release store of finish()/cancel_base().
WaitLoad(t) ==
  /\ wpc = "idle"
  /\ t < nextId
  /\ wtask' = t
  /\ wseen' = state[t]
  /\ wpc' = IF ~is_finished(state[t]) THEN "parked"
            ELSE IF wait_load_order = "acquire" THEN "ret" ELSE "ret_race"
  /\ UNCHANGED <<wgot, wreads>>
  /\ UNCHANGED <<taskVars, sideVars>>

\* Faulty variant: wait_for_task returns whatever the state of the task.
WaitWakeEarly ==
  /\ wpc = "parked"
  /\ wseen' = state[wtask]
  /\ wpc' = "ret"
  /\ UNCHANGED <<wtask, wgot, wreads>>
  /\ UNCHANGED <<taskVars, sideVars>>

\* wait_for_task returns once the task's terminal transition signalled the
\* waiter; then the relaxed load.
WaitWake ==
  /\ wpc = "parked"
  /\ is_finished(state[wtask])
  /\ wseen' = state[wtask]
  /\ wpc' = "ret"
  /\ UNCHANGED <<wtask, wgot, wreads>>
  /\ UNCHANGED <<taskVars, sideVars>>

\* Faulty variant: the read through a shared handle moves the result out,
\* as the overload for an exclusive handle (Result&&) lets its caller do.
read_moves_out(sl) == IF sl.tag = "result" THEN [sl EXCEPT !.val = 0 - 1] ELSE sl

\* What a read through a shared handle leaves in the union:
\* get_result(const shared_task<T>&) returns a const Result&, and the
\* exception is rethrown from the stored exception_ptr.
after_shared_read(sl) == sl

\* wait_and_throw: rethrow get_exception() if wait() returned canceled;
\* otherwise the caller reads the result.
\* A read of the payload that is not ordered after its write is a data
\* race: it may find anything.
WaitThrow ==
  /\ wpc \in {"ret", "ret_race"}
  /\ wgot' \in (IF wseen = "canceled"
                  THEN {set_exception(get_exception(wtask))}
                  ELSE {set_result(get_result(wtask))})
               \cup (IF wpc = "ret_race" THEN {SlotNone} ELSE {})
  /\ slot' = [slot EXCEPT ![wtask] = after_shared_read(@)]
  /\ wpc' = "got"
  /\ UNCHANGED <<wtask, wseen, wreads>>
  /\ UNCHANGED <<node, state, conts, sealed, flushList, pc, fpc, rpc,
                 funcDestroyed, handed, invoked, termCalls, outcome, nextId>>
  /\ UNCHANGED sideVars

\* A further get() through the same shared handle: wait() finds the task
\* finished at its first load, and the payload is read again.
ReadAgain ==
  /\ wpc = "got"
  /\ wreads < MaxReads
  /\ wreads' = wreads + 1
  /\ wseen' = state[wtask]
  /\ wgot' = IF state[wtask] = "canceled"
               THEN set_exception(get_exception(wtask))
               ELSE set_result(get_result(wtask))
  /\ slot' = [slot EXCEPT ![wtask] = after_shared_read(@)]
  /\ UNCHANGED <<wpc, wtask>>
  /\ UNCHANGED <<node, state, conts, sealed, flushList, pc, fpc, rpc,
                 funcDestroyed, handed, invoked, termCalls, outcome, nextId>>
  /\ UNCHANGED sideVars

\* One step of a thread working on node t.
Step(t) ==
  \/ TryAdd(t) \/ DirectRun(t)
  \/ CancelStore(t) \/ FinishStore(t)
  \/ FlushLock(t) \/ FlushNext(t) \/ FlushReturn(t)
  \/ UnwrapFinish(t)
  \/ FwdRun(t) \/ FwdReturn(t)
  \/ \E st \in Styles \cup {"none"}, u \in BOOLEAN : RunTask(t, st, u)

Next ==
  \/ \E p \in UserIds : Then(p, "S1")
  \/ \E t \in Nodes : Step(t)

Spec == Init /\ [][Next]_vars

\* Threads keep running and a scheduler runs every task it accepted.
FairSpec == Spec /\ \A t \in Nodes : WF_vars(Step(t))

\* Faulty variant: the destructor destroys the function object whatever
\* the state.
dtor_destroys_always(st) == TRUE

\* ~task_func(), line 454: state.load(relaxed) == task_state::pending.
dtor_destroys(st) == st = "pending"

\* The function object of c holds a handle to t: a continuation holds its
\* parent, unwrapped_func holds the outer task.
FuncHolds(c, t) ==
  \/ node[c].kind = "cont" /\ node[c].parent = t
  \/ node[c].kind = "fwd" /\ c = FwdNode(t)

\* No thread is inside a member function of t and no handle to t is left:
\* t is in no continuation list, no function object that is still alive
\* holds it, the registration of each of its continuations has returned, and
\* no thread waits on it. A task that sits in the queue of a scheduler goes
\* when the scheduler drops its queue.
Released(t) ==
  /\ node[t].kind \in {"root", "cont", "fwd"}
  /\ \/ pc[t] = "scheduled" /\ node[t].sched # "inline" /\ fpc[t] = "idle"
     \/ pc[t] \in {"created", "ran"} /\ TermDone(t)
     \/ pc[t] = "u_wait" /\ RunDone(t) /\ TermDone(t)
  /\ rpc[t] = "idle" \/ RegDone(t)
  /\ \A p \in Nodes :
       /\ \A i \in DOMAIN conts[p] : conts[p][i] # t
       /\ \A i \in DOMAIN flushList[p] : flushList[p][i] # t
  /\ \A c \in Nodes :
       (FuncHolds(c, t) /\ pc[c] # "gone") => funcDestroyed[c] > 0 /\ RegDone(c)
  /\ wtask # t

\* ~task_func(), lines 450-456, when the last handle to t goes.
DestroyNode(t) ==
  /\ Released(t)
  /\ funcDestroyed' = [funcDestroyed EXCEPT ![t] = IF dtor_destroys(state[t]) THEN Inc(@) ELSE @]
  /\ pc' = [pc EXCEPT ![t] = "gone"]
  /\ UNCHANGED <<node, state, slot, conts, sealed, flushList, fpc, rpc,
                 handed, invoked, termCalls, outcome, nextId>>
  /\ UNCHANGED <<waitVars, sideVars>>

NextLife ==
  \/ \E p \in UserIds : pc[p] # "gone" /\ Then(p, "S1")
  \/ \E t \in Nodes : Step(t)
  \/ \E t \in Nodes : DestroyNode(t)

\* The tasks from their creation to the destruction of their nodes.
LifeSpec == Init /\ [][NextLife]_vars

\* The tasks without unwrapping, and one thread in wait_and_throw().
NextWait ==
  \/ \E p \in UserIds : Then(p, "S1")
  \/ \E t \in Nodes :
       \/ TryAdd(t) \/ DirectRun(t)
       \/ CancelStore(t) \/ FinishStore(t)
       \/ FlushLock(t) \/ FlushNext(t) \/ FlushReturn(t)
       \/ \E st \in Styles \cup {"none"} : RunTask(t, st, FALSE)
  \/ \E t \in UserIds : WaitLoad(t)
  \/ WaitWake
  \/ WaitThrow
  \/ ReadAgain

WaitSpec == Init /\ [][NextWait]_vars

\* A thread parked in wait_for_task is woken when it can be.
WaitFairSpec == WaitSpec /\ WF_vars(WaitWake)

\* Root task 1 is pending on its scheduler and two then() calls on it have
\* returned: continuations 2 and 3 are stored in its list, in that order.
DrainConts == {2, 3}

InitDrain ==
  /\ node = [t \in Nodes |-> IF t = 1 THEN RootNode
                              ELSE IF t \in DrainConts THEN ContNode(1, "S1")
                              ELSE NoNode]
  /\ state = [t \in Nodes |-> "pending"]
  /\ slot = [t \in Nodes |-> IF t \in DrainConts THEN SlotSched("S1") ELSE SlotNone]
  /\ conts = [t \in Nodes |-> IF t = 1 THEN <<2, 3>> ELSE <<>>]
  /\ sealed = [t \in Nodes |-> FALSE]
  /\ flushList = [t \in Nodes |-> <<>>]
  /\ pc = [t \in Nodes |-> IF t = 1 THEN "scheduled"
                            ELSE IF t \in DrainConts THEN "created"
                            ELSE "none"]
  /\ fpc = [t \in Nodes |-> "idle"]
  /\ rpc = [t \in Nodes |-> IF t \in DrainConts THEN "added" ELSE "idle"]
  /\ funcDestroyed = [t \in Nodes |-> 0]
  /\ handed = [t \in Nodes |-> IF t = 1 THEN 1 ELSE 0]
  /\ invoked = [t \in Nodes |-> 0]
  /\ termCalls = [t \in Nodes |-> 0]
  /\ outcome = [t \in Nodes |-> NoOutcome]
  /\ nextId = MaxTasks + 1
  /\ wpc = "idle"
  /\ wtask = 0
  /\ wseen = "none"
  /\ wgot = SlotNone
  /\ wreads = 0
  /\ SideInit

DrainStep(t) ==
  \/ CancelStore(t) \/ FinishStore(t)
  \/ FlushLock(t) \/ FlushNext(t) \/ FlushReturn(t)
  \/ \E st \in Styles \cup {"none"} : RunTask(t, st, FALSE)

NextDrain == \E t \in Nodes : DrainStep(t)

\* The drain of a list of two entries; threads keep running and a scheduler
\* runs every task it accepted.
DrainSpec == InitDrain /\ [][NextDrain]_vars /\ \A t \in Nodes : WF_vars(DrainStep(t))

\* ------------------------------------------------------------ properties
IsCont(c) == node[c].kind \in {"cont", "fwd"}
Parent(c) == node[c].parent
UserCont(c) == node[c].kind = "cont"

\* C1: a continuation registered with add_continuation is handed to a
\* scheduler at most once: run_continuation is called for it by the flush
\* of the finisher or by the direct path of the registrant, never by both.
C1_HandedAtMostOnce ==
  \A c \in Nodes : IsCont(c) => handed[c] <= 1

\* The registrant ran the continuation directly while the finisher had
\* stored the terminal state and not yet locked the list.
C1_Witness ==
  \E c \in Nodes :
    /\ UserCont(c) /\ handed[c] = 1
    /\ rpc[c] = "direct_run" /\ fpc[Parent(c)] = "flush"

\* C2: no continuation is lost: once add_continuation has been called for
\* c and the parent has reached completed or canceled, c is eventually
\* handed to its scheduler.
C2_NoContinuationLost ==
  \A c \in Nodes :
    (IsCont(c) /\ rpc[c] # "idle" /\ is_finished(state[Parent(c)]))
      ~> (handed[c] >= 1)

\* C3: a terminal state never changes again, finish()/cancel_base() is
\* called at most once on a task, it has been called exactly once on every
\* task whose state is terminal and on every task whose run has returned
\* without unwrapping.
C3_TerminalOnce ==
  [][ \A t \in Nodes :
        /\ is_finished(state[t]) => state'[t] = state[t]
        /\ termCalls'[t] <= 1
        /\ is_finished(state'[t]) => termCalls'[t] = 1
        /\ pc'[t] = "ran" => termCalls'[t] = 1 ]_vars

\* An unwrapping task was finished by the forwarding continuation, and a
\* continuation was canceled because its scheduling failed.
C3_Witness ==
  /\ \E t \in UserIds :
       /\ node[t].unwrap /\ TermDone(t) /\ termCalls[t] = 1
       /\ pc[FwdNode(t)] = "ran"
  /\ \E c \in UserIds :
       /\ UserCont(c) /\ state[c] = "canceled" /\ termCalls[c] = 1
       /\ slot[c] = set_exception(SchedExc)

\* C4: every change of a task's state is one of pending->completed,
\* pending->canceled, pending->unwrapped, unwrapped->completed,
\* unwrapped->canceled, pending->locked, locked->completed,
\* locked->canceled.
AllowedTransitions ==
  { <<"pending", "completed">>, <<"pending", "canceled">>,
    <<"pending", "unwrapped">>, <<"unwrapped", "completed">>,
    <<"unwrapped", "canceled">>, <<"pending", "locked">>,
    <<"locked", "completed">>, <<"locked", "canceled">> }

C4_AllowedTransitions ==
  [][ \A t \in Nodes :
        state'[t] # state[t] => <<state[t], state'[t]>> \in AllowedTransitions ]_vars

\* An unwrapped task was canceled with the exception of its child.
C4_Witness ==
  \E t \in UserIds :
    /\ node[t].unwrap /\ state[t] = "canceled"
    /\ slot[t] = set_exception(UserExc(ChildNode(t)))

\* C5: a task whose state is completed holds its result and a task whose
\* state is canceled holds its exception, and a thread that read the state
\* as completed or canceled in wait() reads exactly that payload.
C5_Publication ==
  /\ \A t \in Nodes :
       /\ state[t] = "completed" => slot[t].tag = "result"
       /\ state[t] = "canceled" => slot[t].tag = "except"
  /\ wpc = "got" =>
       /\ wgot = slot[wtask]
       /\ wgot.tag = (IF wseen = "canceled" THEN "except" ELSE "result")

\* A waiter read the result of a completed continuation.
C5_Witness ==
  /\ wpc = "got" /\ wseen = "completed" /\ wgot.tag = "result"
  /\ UserCont(wtask)

\* C6 as stated: the result slot holds a valid result if and only if the
\* state is completed.
C6_ResultIffCompleted ==
  \A t \in Nodes : (slot[t].tag = "result") <=> (state[t] = "completed")

\* C6: a completed task holds a valid result; a task that holds a valid
\* result and is not completed is between set_result and the state store
\* of the finish() that follows it, its state still pending or unwrapped.
C6_ResultWhenCompleted ==
  \A t \in Nodes :
    /\ state[t] = "completed" => slot[t].tag = "result"
    /\ (slot[t].tag = "result" /\ state[t] # "completed") =>
         /\ fpc[t] = "f_store"
         /\ state[t] \in {"pending", "unwrapped"}

\* The forwarding continuation has written the child's result into the
\* outer task, whose state is still unwrapped.
C6_Witness ==
  \E t \in UserIds :
    /\ slot[t] = set_result(ValueOf(ChildNode(t)))
    /\ state[t] = "unwrapped" /\ fpc[t] = "f_store"

\* C7 as stated: the exception slot holds a valid exception if and only if
\* the state is canceled.
C7_ExceptionIffCanceled ==
  \A t \in Nodes : (slot[t].tag = "except") <=> (state[t] = "canceled")

\* C7: a canceled task holds a valid exception; a task that holds a valid
\* exception and is not canceled is between set_exception and the state
\* store of cancel_base, its state still pending or unwrapped.
C7_ExceptionWhenCanceled ==
  \A t \in Nodes :
    /\ state[t] = "canceled" => slot[t].tag = "except"
    /\ (slot[t].tag = "except" /\ state[t] # "canceled") =>
         /\ fpc[t] = "c_store"
         /\ state[t] \in {"pending", "unwrapped"}

\* The callable of a task has thrown and cancel_base has written the
\* exception; the state is still pending.
C7_Witness ==
  \E t \in UserIds :
    /\ outcome[t].k = "throw" /\ slot[t] = set_exception(UserExc(t))
    /\ state[t] = "pending" /\ fpc[t] = "c_store"

\* C8: a root or continuation task whose callable threw e holds e as its
\* exception and is never completed; when cancel has returned its state is
\* canceled, its list is locked and empty and every continuation that was
\* stored in it has been handed on; wait_and_throw on it rethrows e.
C8_ThrowCancels ==
  \A t \in UserIds :
    outcome[t].k = "throw" =>
      /\ slot[t] = set_exception(UserExc(t))
      /\ state[t] \in {"pending", "canceled"}
      /\ is_finished(state[t]) => state[t] = "canceled"
      /\ TermDone(t) =>
           /\ state[t] = "canceled"
           /\ sealed[t] /\ conts[t] = <<>> /\ flushList[t] = <<>>
           /\ \A c \in Nodes :
                (UserCont(c) /\ Parent(c) = t /\ rpc[c] = "added") => handed[c] = 1
      /\ (wpc = "got" /\ wtask = t) =>
           /\ wseen = "canceled"
           /\ wgot = set_exception(UserExc(t))

\* The root task threw, its stored continuation was handed on and the
\* waiter got the exception.
C8_Witness ==
  /\ outcome[1].k = "throw" /\ TermDone(1)
  /\ \E c \in Nodes : UserCont(c) /\ Parent(c) = 1 /\ rpc[c] = "added" /\ handed[c] = 1
  /\ wpc = "got" /\ wtask = 1

C11_ValueRoundTrip ==
  [][ /\ \A t \in UserIds :
           (node'[t].kind = "root" /\ outcome'[t].k = "ret") =>
             /\ slot'[t] = set_result(ValueOf(t))
             /\ state'[t] \in {"pending", "completed"}
             /\ TermDone(t)' => state'[t] = "completed"
             /\ (wpc' = "got" /\ wtask' = t) =>
                  /\ wseen' = "completed"
                  /\ wgot' = set_result(ValueOf(t))
      /\ (wpc' = "got" /\ (wpc # "got" \/ wreads' # wreads)) =>
           /\ state' = state
           /\ slot' = slot ]_vars

\* The result of the root task has been read three times.
C11_Witness ==
  /\ node[1].kind = "root" /\ outcome[1].k = "ret"
  /\ wpc = "got" /\ wtask = 1 /\ wreads = 2
  /\ wgot = set_result(ValueOf(1))

\* The tasks whose callable returned a child task.
Unwrapped(t) == node[t].unwrap /\ outcome[t] = ReturnedTask

\* C12 as stated: an outer task whose callable returned a child task ends
\* as the child did: completed with the child's result or canceled with the
\* child's exception.
C12_OuterEqualsChild ==
  \A t \in UserIds :
    (Unwrapped(t) /\ is_finished(state[t])) =>
      /\ is_finished(state[ChildNode(t)])
      /\ state[t] = state[ChildNode(t)]
      /\ slot[t] = slot[ChildNode(t)]

\* C12: an outer task whose callable returned a child task ends as the
\* child did, whether the forwarding continuation was stored in the child's
\* list or run by the registrant, except that it is canceled with the
\* exception of then() when registering the forwarding continuation threw,
\* and with the exception of the copy when copying the completed child's
\* result threw.
C12_OuterEqualsChildUnlessForwardingThrows ==
  \A t \in UserIds :
    (Unwrapped(t) /\ is_finished(state[t])) =>
      IF node[FwdNode(t)].kind = "none"
        THEN state[t] = "canceled" /\ slot[t] = set_exception(ThenExc)
        ELSE /\ is_finished(state[ChildNode(t)])
             /\ rpc[FwdNode(t)] \in {"added", "direct_run"}
             /\ IF slot[t].ex = "copy_error"
                  THEN /\ state[ChildNode(t)] = "completed"
                       /\ state[t] = "canceled"
                       /\ slot[t] = set_exception(CopyExc)
                  ELSE /\ state[t] = state[ChildNode(t)]
                       /\ slot[t] = slot[ChildNode(t)]

\* The child was canceled before the forwarding continuation was
\* registered, and the outer task is canceled with the child's exception.
C12_Witness ==
  \E t \in UserIds :
    /\ Unwrapped(t) /\ rpc[FwdNode(t)] = "direct_run"
    /\ state[t] = "canceled"
    /\ slot[t] = set_exception(UserExc(ChildNode(t)))

\* The continuations registered on t that have been handed to a scheduler.
HandedOf(t) == {c \in Nodes : UserCont(c) /\ Parent(c) = t /\ handed[c] >= 1}

\* C13 as stated: while a task is unwrapped its list is open and none of
\* its continuations has been scheduled; a continuation of a task that
\* returned a child is scheduled only when the child and the outer task are
\* both in a terminal state.
C13_FlushAfterChild ==
  \A t \in UserIds :
    Unwrapped(t) =>
      /\ state[t] = "unwrapped" => (~sealed[t] /\ HandedOf(t) = {})
      /\ HandedOf(t) # {} =>
           (is_finished(state[t]) /\ is_finished(state[ChildNode(t)]))

\* C13: while a task is unwrapped none of its continuations has been
\* scheduled, its list is open and a try_add on it stores the entry; a
\* continuation of a task that returned a child is scheduled only when the
\* outer task is in a terminal state, and then the child is in a terminal
\* state too unless registering the forwarding continuation threw.
C13_FlushAfterOuter ==
  [][ \A t \in UserIds :
        Unwrapped(t)' =>
          /\ state'[t] = "unwrapped" => (~sealed'[t] /\ HandedOf(t)' = {})
          /\ HandedOf(t)' # {} =>
               /\ is_finished(state'[t])
               /\ \/ is_finished(state'[ChildNode(t)])
                  \/ node'[FwdNode(t)].kind = "none"
          /\ \A c \in UserIds :
               (/\ UserCont(c) /\ Parent(c) = t /\ state[t] = "unwrapped"
                /\ rpc[c] = "ac_try" /\ rpc'[c] # "ac_try") => rpc'[c] = "added" ]_vars

\* A continuation that was stored in the list of an unwrapped task has been
\* scheduled after the child and the outer task completed.
C13_Witness ==
  \E t \in UserIds :
    /\ Unwrapped(t) /\ state[t] = "completed"
    /\ state[ChildNode(t)] = "completed"
    /\ \E c \in HandedOf(t) : rpc[c] = "added"

\* A schedule call has thrown while c was being dispatched and
\* run_continuation is in, or has left, its catch clause.
ScheduleThrew(c) ==
  \/ rpc[c] \in {"direct_cancel", "crashed"}
  \/ slot[c] = set_exception(SchedExc)
  \/ /\ IsCont(c) /\ fpc[Parent(c)] = "crashed"
     /\ flushList[Parent(c)] # <<>> /\ Head(flushList[Parent(c)]) = c

\* The thread that dispatched c stopped in the catch clause of
\* run_continuation.
DispatchStopped(c) ==
  \/ rpc[c] = "crashed"
  \/ /\ IsCont(c) /\ fpc[Parent(c)] = "crashed"
     /\ Head(flushList[Parent(c)]) = c

\* C14: when schedule throws x while continuation c is dispatched, from the
\* flush or from the direct run of the registrant, c is canceled with x, its
\* function object is destroyed, and run_continuation returns, so that the
\* entries left in the list of the parent are dispatched as well.
C14_ScheduleThrowCancels ==
  \A c \in Nodes :
    ScheduleThrew(c) =>
      /\ slot[c] = set_exception(SchedExc)
      /\ funcDestroyed[c] >= 1
      /\ ~DispatchStopped(c)
      /\ TermDone(c) => state[c] = "canceled"

\* The causes of a canceled state, read from what the task holds: its own
\* callable threw; it is a value continuation that found its parent
\* canceled and took over the parent's exception without running.
OwnCallableThrew(t) ==
  /\ outcome[t] = Threw(UserExc(t))
  /\ slot[t] = set_exception(UserExc(t))

ValueContOfCanceledParent(t) ==
  /\ UserCont(t) /\ node[t].style = "value" /\ invoked[t] = 0
  /\ state[Parent(t)] = "canceled"
  /\ slot[t] = slot[Parent(t)]

\* Further causes: schedule threw when t was dispatched; the callable of t
\* returned a task and that task was canceled, the copy of its result
\* threw, or then() on it threw.
ScheduleFailed(t) ==
  /\ UserCont(t) /\ invoked[t] = 0
  /\ slot[t] = set_exception(SchedExc)

ChildCanceled(t) ==
  /\ t \in UserIds /\ outcome[t] = ReturnedTask
  /\ state[ChildNode(t)] = "canceled"
  /\ slot[t] = slot[ChildNode(t)]

ForwardingFailed(t) ==
  /\ t \in UserIds /\ outcome[t] = ReturnedTask
  /\ \/ slot[t] = set_exception(ThenExc)
     \/ state[ChildNode(t)] = "completed" /\ slot[t] = set_exception(CopyExc)

\* C15 as stated: a task is canceled only because its own callable threw or
\* because it is a value continuation of a canceled parent.
C15_CanceledOnlyByOwnOrParent ==
  \A t \in Nodes :
    state[t] = "canceled" => OwnCallableThrew(t) \/ ValueContOfCanceledParent(t)

\* C15: a task is canceled only because its own callable threw, because it
\* is a value continuation of a canceled parent, because schedule threw when
\* it was dispatched, or because its callable returned a task and that task
\* was canceled or could not be forwarded (then() or the copy of the result
\* threw).
C15_CanceledCauses ==
  \A t \in Nodes :
    state[t] = "canceled" =>
      \/ OwnCallableThrew(t)
      \/ ValueContOfCanceledParent(t)
      \/ ScheduleFailed(t)
      \/ ChildCanceled(t)
      \/ ForwardingFailed(t)

\* A continuation canceled by a throwing schedule call next to a task
\* canceled by its own callable.
C15_Witness ==
  \E t, q \in Nodes :
    /\ state[t] = "canceled" /\ ScheduleFailed(t)
    /\ state[q] = "canceled" /\ OwnCallableThrew(q)

RECURSIVE SumOver(_, _)
SumOver(f, S) ==
  IF S = {} THEN 0
  ELSE LET x == CHOOSE y \in S : TRUE IN f[x] + SumOver(f, S \ {x})

\* C16: of all set()/set_exception() attempts on one event task at most one
\* succeeds, and exactly one has succeeded when the task is terminal; an
\* attempt fails only when another one has taken the task out of pending;
\* the task goes pending -> locked -> terminal and keeps its terminal state
\* and payload; an attempt that fails leaves the state, the result and the
\* exception as they were.
C16_OneShotSet ==
  [][ /\ SumOver(sok', Setters) <= 1
      /\ is_finished(estate') <=> SumOver(sok', Setters) = 1
      /\ (\E s \in Setters : sfail'[s] > 0) => estate' # "pending"
      /\ <<estate, estate'>> \in
            {<<"pending", "pending">>, <<"pending", "locked">>,
             <<"locked", "locked">>, <<"locked", "completed">>,
             <<"locked", "canceled">>, <<"completed", "completed">>,
             <<"canceled", "canceled">>}
      /\ is_finished(estate) => eslot' = eslot
      /\ \A s \in Setters :
           sfail'[s] > sfail[s] => estate' = estate /\ eslot' = eslot
    ]_vars

\* One producer has set the task, its second attempt has failed and so has
\* every attempt of another producer.
C16_Witness ==
  \E s, r \in Setters :
    /\ s # r /\ sok[s] = 1 /\ sfail[r] = MaxAttempts
    /\ is_finished(estate) /\ sfail[s] = 1

\* Every invocation of the callable returned.
NoCallableThrew == pthrows = 0

\* C17: whatever the splits, parallel_for invokes the callable at most once
\* on an element, only on elements of the range, and, when it returns,
\* exactly once on each element of the range (for a callable that returns).
C17_EachElementOnce ==
  /\ \A i \in Elements : visits[i] <= 1 /\ (visits[i] = 1 => i < pfN)
  /\ (ppc = "returned" /\ NoCallableThrew) =>
       \A i \in Elements : i < pfN => visits[i] = 1

\* parallel_for over the largest range has returned after the range was
\* split down to single elements.
C17_Witness ==
  /\ ppc = "returned" /\ pfN = MaxRange /\ NoCallableThrew
  /\ nextFrame = 2 * MaxRange
  /\ \A i \in Elements : visits[i] = 1

\* The number of tasks internal_parallel_for has spawned.
Spawned == Cardinality({f \in FrameIds : frame[f].task})

\* C18: with local spawn into a queue that the spawning thread serves while
\* it is blocked in a join, a call of parallel_for always terminates.
C18_ParallelForTerminates ==
  (ppc = "running") ~> (ppc \in {"returned", "threw"})

\* parallel_for has returned on a scheduler of one worker after it spawned
\* two tasks.
C18_Witness ==
  /\ ppc = "returned" /\ pnw = 1 /\ Spawned > pnw

\* C19: wait() returns a non-empty mask only; what it returns is the mask
\* at that moment, which holds exactly the bits signalled and not yet
\* returned, and the mask is empty right after.
C19_WaitReturnsAndClears ==
  [][ /\ event_mask' = unconsumed'
      /\ (wvpc' = "returned" /\ wvpc # "returned") =>
           /\ wres' # {}
           /\ wres' = unconsumed
           /\ event_mask' = {}
    ]_vars

\* wait() has returned both bits, signalled by two calls while it was
\* blocked.
C19_Witness ==
  /\ wvpc = "returned" /\ wslept
  /\ wres = WaitTypes
  /\ \E g, h \in Signalers : g # h /\ gbits[g] = {task_finished}
                                     /\ gbits[h] = {task_available}
  /\ event_mask = {}

\* C20: no wake-up is lost: a bit put into the mask by signal(), before
\* the waiting thread blocks or while it is blocked, is eventually returned
\* by wait().
C20_NoLostWakeup ==
  \A b \in WaitTypes :
    (b \in event_mask) ~> (wvpc = "returned" /\ b \in wres)

\* The waiting thread is blocked in cond().wait, a signal has set a bit and
\* has not notified yet.
C20_Witness ==
  /\ wvpc = "sleeping"
  /\ \E g \in Signalers : gpc[g] = "notify" /\ gbits[g] \subseteq event_mask

\* finish()/cancel_base() on t is past its state store: it is about to
\* flush, is flushing, or has flushed the list of t.
PastStore(t) == fpc[t] \notin {"idle", "c_store", "f_store"}

\* C21: no continuation is handed to a scheduler while its parent is not
\* finished: when add_continuation is on its direct path (it read a finished
\* state, or try_add refused the entry), and when run_continuation has been
\* called for the continuation, the state of the parent is completed or
\* canceled; the flush of a task comes after its terminal store.
C21_DispatchOnlyWhenFinished ==
  /\ \A c \in Nodes :
       IsCont(c) =>
         /\ rpc[c] \in {"ac_direct", "direct_run", "direct_cancel", "crashed"}
              => is_finished(state[Parent(c)])
         /\ handed[c] >= 1 => is_finished(state[Parent(c)])
  /\ \A t \in Nodes :
       PastStore(t) \/ sealed[t] \/ flushList[t] # <<>> => is_finished(state[t])

\* A continuation is on the direct path because it was registered after the
\* terminal store of its parent and before the list was sealed.
C21_Witness ==
  \E c \in Nodes :
    /\ UserCont(c) /\ rpc[c] = "ac_direct"
    /\ fpc[Parent(c)] = "flush" /\ ~sealed[Parent(c)]

\* C22: an invocation of internal_parallel_for that spawned a task is left
\* only when that task is finished, so that no spawned task is queued or
\* running after the invocation that owns subpart has been left.
C22_JoinedBeforeLeft ==
  \A f \in FrameIds :
    (frame[f].pc = "left" /\ frame[f].sub # 0) =>
      frame[frame[f].sub].st \in {"done", "canceled"}

HasFunc(t) == node[t].kind \in {"root", "cont", "fwd"}

\* C24 as stated: a task that is completed, canceled or unwrapped has had
\* its function object destroyed.
C24_DestroyedWhenNotPending ==
  \A t \in Nodes :
    (HasFunc(t) /\ state[t] \in {"completed", "canceled", "unwrapped"}) =>
      funcDestroyed[t] >= 1

\* C24: a task that is completed or canceled has had its function object
\* destroyed, and so has a task on whose child the forwarding continuation
\* has been registered; an unwrapped task still holds its function only
\* while unwrapped_finish is between its store of unwrapped and the
\* destroy_func that follows it.
C24_DestroyedWhenFinished ==
  \A t \in Nodes :
    HasFunc(t) =>
      /\ is_finished(state[t]) => funcDestroyed[t] >= 1
      /\ state[t] = "unwrapped" => funcDestroyed[t] >= 1 \/ pc[t] = "u_finish"
      /\ (t \in UserIds /\ node[FwdNode(t)].kind = "fwd") => funcDestroyed[t] >= 1

\* One task completed by its own run, one unwrapped with its forwarding
\* continuation registered, both without their function.
C24_Witness ==
  \E t, q \in UserIds :
    /\ state[t] = "completed" /\ outcome[t].k = "ret" /\ funcDestroyed[t] = 1
    /\ state[q] = "unwrapped" /\ node[FwdNode(q)].kind = "fwd" /\ funcDestroyed[q] = 1

\* C25: when the callable of an unwrapping task returned a child, the child
\* completed and the copy of its result into the outer task throws x, the
\* outer task holds x and is never completed; it is
\* canceled by one call of cancel_base, and when that call has returned its
\* list is sealed and empty and every continuation stored in it has been
\* handed on once.
C25_CopyFailureCancels ==
  \A t \in UserIds :
    (outcome[t].k = "child" /\ slot[t] = set_exception(CopyExc)) =>
      /\ state[ChildNode(t)] = "completed"
      /\ state[t] \in {"unwrapped", "canceled"}
      /\ termCalls[t] = 1
      /\ fpc[t] # "idle"
      /\ TermDone(t) =>
           /\ state[t] = "canceled"
           /\ sealed[t] /\ conts[t] = <<>> /\ flushList[t] = <<>>
           /\ \A c \in Nodes :
                (UserCont(c) /\ Parent(c) = t /\ rpc[c] = "added") => handed[c] = 1

\* The copy threw, the outer task is canceled and the continuation that was
\* stored in its list while it was unwrapped has been handed on.
C25_Witness ==
  \E t \in UserIds :
    /\ outcome[t].k = "child" /\ slot[t] = set_exception(CopyExc) /\ TermDone(t)
    /\ \E c \in Nodes : UserCont(c) /\ Parent(c) = t /\ rpc[c] = "added" /\ handed[c] = 1

\* C26: signal() holds the mutex from its update of the mask until its
\* notify has completed; the waiting thread does not return from wait()
\* while a signal() is between the two; and when the waiting thread has
\* destroyed the event no call of signal() is still inside the event.
C26_NotifyUnderMutex ==
  /\ [](\A g \in Signalers : gpc[g] \in {"notify", "unlock"} => mtx = g)
  /\ [][(\E g \in Signalers : gpc[g] = "notify")
          => ~(wvpc # "returned" /\ wvpc' = "returned")]_vars
  /\ [](wvpc = "destroyed" => \A g \in Signalers : gpc[g] = "idle")

\* The waiting thread blocked, was woken by a signal(), returned and
\* destroyed the event.
C26_Witness ==
  /\ wvpc = "destroyed"
  /\ wslept
  /\ wres # {}
  /\ \A g \in Signalers : gcount[g] = MaxSignals

\* C27: a call of try_wait(event) returns true iff the mask before the call
\* intersects event, removes exactly the bits of event from the mask, and
\* takes place whether or not a bit of event is pending.
C27_TryWaitClearsOnlyEvent ==
  [][twflip' # twflip =>
       /\ twret' = (event_mask \cap twev' # {})
       /\ event_mask' = event_mask \ twev'
       /\ \A b \in WaitTypes \ twev' : (b \in event_mask') = (b \in event_mask)]_vars

\* try_wait(task_finished) has returned true and a pending task_available
\* is still in the mask.
C27_Witness ==
  /\ twev = {task_finished}
  /\ twret
  /\ event_mask = {task_available}

\* C28: a continuation that run_continuation has passed to a scheduler was
\* passed to the scheduler it was registered with; and a continuation that
\* waits in the list of its parent is pending and its union holds that
\* scheduler.
C28_SubmittedWhereRegistered ==
  \A c \in Nodes :
    /\ submitted[c] # "none" => submitted[c] = node[c].sched
    /\ (handed[c] = 0 /\ \E p \in Nodes :
          \/ \E i \in DOMAIN conts[p] : conts[p][i] = c
          \/ \E i \in DOMAIN flushList[p] : flushList[p][i] = c)
         => state[c] = "pending" /\ slot[c] = SlotSched(node[c].sched)

\* A stored continuation has been passed to its scheduler by the flush of
\* its parent.
C28_Witness ==
  \E c \in Nodes :
    /\ UserCont(c) /\ rpc[c] = "added"
    /\ submitted[c] = "S1"
    /\ node[c].sched = "S1"

\* C29: the function object of a task is never destroyed twice, and when
\* the node of the task has been destroyed it has been destroyed exactly
\* once.
C29_FuncDestroyedOnce ==
  \A t \in Nodes :
    HasFunc(t) =>
      /\ funcDestroyed[t] <= 1
      /\ pc[t] = "gone" => funcDestroyed[t] = 1

\* A continuation was destroyed while it was pending, by its destructor,
\* and its parent after it had finished, by its execution function.
C29_Witness ==
  \E t, c \in Nodes :
    /\ UserCont(c) /\ Parent(c) = t
    /\ pc[c] = "gone" /\ state[c] = "pending" /\ funcDestroyed[c] = 1
    /\ pc[t] = "gone" /\ state[t] # "pending" /\ funcDestroyed[t] = 1

\* C30: when the constructor of element i threw and aligned_array(length)
\* has rethrown, each of the elements 0..i-1 has been destroyed once, no
\* element from i on has been destroyed, and the block has been freed once.
C30_RollbackDestroysBuilt ==
  apc = "rethrown" =>
    /\ \A e \in 0..(MaxLength - 1) : dtors[e] = (IF e < ai THEN 1 ELSE 0)
    /\ afreed = 1

====
